---- MODULE Spec2Model ----
(***************************************************************************)
(* A model of the flash-card pipeline of POST /api/flashcards              *)
(* (src/src/app/api/flashcards/route.ts) and of the generator adapter      *)
(* generateFlashCardsFromPDF (src/src/app/actions.ts).                     *)
(*                                                                         *)
(* Text is modelled as a sequence of characters; the characters that       *)
(* matter to the CSV rendering are the double quote, the comma and the     *)
(* line feed, and "a" stands for any other character.                      *)
(***************************************************************************)
EXTENDS Integers, Sequences, FiniteSets, TLC

VARIABLES
    pc,            \* position of the POST handler
    file,          \* formData.get("file")
    totalPages,    \* masterDoc.getPageCount()
    pdfBuffers,    \* the buffers handed to the generator, in order
    idx,           \* position of the for..of loop over pdfBuffers (1-based)
    resp,          \* what the generation service answered to the call in flight
    allCards,      \* the aggregated records
    csv,           \* the serialized text
    response,      \* the HTTP response of the request
    calls,         \* history: the buffer positions a generation call was made for
    inFlight,      \* history: generation calls started and not yet returned
    batches,       \* history: the record batches the adapter returned, in call order
    cancelled,     \* environment: "none", or why the caller stopped waiting
    cancelledAt,   \* history: the buffer position in flight when that happened
    failedAt       \* history: the buffer position whose generation call threw

vars == <<pc, file, totalPages, pdfBuffers, idx, resp, allCards, csv, response,
          calls, inFlight, batches, cancelled, cancelledAt, failedAt>>

----------------------------------------------------------------------------
(* Program constants *)

Threshold == 500
ChunkSize == 100
StatusOk == 200
StatusBadRequest == 400

(* Bounds of the model *)

MaxPages == 701        \* page counts of the split specification: 0..MaxPages
PagesOver == 1         \* the request specification: page counts 0..Threshold+PagesOver
MaxItems == 2          \* adapter specification: length of the "flashcard" array
MaxCards == 2          \* serializer specification: number of records
MaxChars == 2          \* serializer specification: characters over all fields

----------------------------------------------------------------------------
(* Characters and text *)

Quote == "DQ"
Comma == "COMMA"
Newline == "LF"
Other == "a"
Alphabet == {Quote, Comma, Newline, Other}

Min(a, b) == IF a < b THEN a ELSE b

RECURSIVE TextsOfLen(_)
TextsOfLen(n) ==
    IF n = 0 THEN {<<>>}
    ELSE {<<c>> \o t : c \in Alphabet, t \in TextsOfLen(n - 1)}

TextsUpTo(n) == UNION {TextsOfLen(k) : k \in 0..n}

Card(q, a) == [question |-> q, answer |-> a]

----------------------------------------------------------------------------
(* The uploaded form field and the document in it *)

NoFile == [kind |-> "absent", valid |-> FALSE, pages |-> 0]
TextField == [kind |-> "string", valid |-> FALSE, pages |-> 0]
BadFile == [kind |-> "file", valid |-> FALSE, pages |-> 0]
PdfFile(p) == [kind |-> "file", valid |-> TRUE, pages |-> p]

(* A buffer: the uploaded bytes themselves, or a document newly saved from *)
(* the pages first..last-1 of the upload.                                  *)
Original(p) == [orig |-> TRUE, first |-> 0, last |-> p]
Extract(s, e) == [orig |-> FALSE, first |-> s, last |-> e]

chunkEndNoClamp(start, total, chunkSize) == start + chunkSize

chunkEnd(start, total, chunkSize) == Min(start + chunkSize, total)

RECURSIVE splitFrom(_, _, _)
splitFrom(start, total, chunkSize) ==
    IF start < total
    THEN <<Extract(start, chunkEnd(start, total, chunkSize))>>
         \o splitFrom(start + chunkSize, total, chunkSize)
    ELSE <<>>

splitPdf(total, chunkSize) == splitFrom(0, total, chunkSize)

choosePdfBuffersFromThreshold(total) ==
    IF total >= Threshold THEN splitPdf(total, ChunkSize) ELSE <<Original(total)>>

choosePdfBuffers(total) ==
    IF total > Threshold THEN splitPdf(total, ChunkSize) ELSE <<Original(total)>>

----------------------------------------------------------------------------
(* What the generation service can answer, and the adapter's validation *)

FAbsent == [t |-> "absent", s |-> <<>>]
FNumber == [t |-> "number", s |-> <<>>]
FString(s) == [t |-> "string", s |-> s]

(* An element of the "flashcard" array: a JSON object with a question and  *)
(* an answer member (each absent, a number or a string) and possibly one   *)
(* further member, or a JSON value that is no object.                      *)
Item(q, a, x) == [isObject |-> TRUE, question |-> q, answer |-> a, extra |-> x]
NonObjectItem == [isObject |-> FALSE, question |-> FAbsent, answer |-> FAbsent,
                  extra |-> FALSE]

(* The parsed response text: a JSON object that may have the member        *)
(* "flashcard" (an array of items or some other value) and may have one    *)
(* further member, or a JSON value that is no object.                      *)
Json(hasKey, isArray, items, x) ==
    [isObject |-> TRUE, hasKey |-> hasKey, isArray |-> isArray, items |-> items,
     extra |-> x]
NonObjectJson ==
    [isObject |-> FALSE, hasKey |-> FALSE, isArray |-> FALSE, items |-> <<>>,
     extra |-> FALSE]

NoResponse == [kind |-> "none", json |-> NonObjectJson]
ServiceError == [kind |-> "error", json |-> NonObjectJson]
EmptyText == [kind |-> "empty", json |-> NonObjectJson]
GarbageText == [kind |-> "garbage", json |-> NonObjectJson]
JsonText(j) == [kind |-> "json", json |-> j]

Thrown(e) == [ok |-> FALSE, error |-> e, cards |-> <<>>]
Returned(cards) == [ok |-> TRUE, error |-> "", cards |-> cards]

FlashCardSchemaAnswerUnchecked(item) ==
    item.isObject /\ item.question.t = "string"

(* z.object({question: z.string(), answer: z.string()}): unknown members   *)
(* are allowed and dropped from the parsed value.                          *)
FlashCardSchemaAccepts(item) ==
    item.isObject /\ item.question.t = "string" /\ item.answer.t = "string"

FlashCardSchemaParse(item) == Card(item.question.s, item.answer.s)

FlashCardsArrayParse(j) ==
    IF /\ j.isObject
       /\ j.hasKey
       /\ j.isArray
       /\ \A i \in 1..Len(j.items) : FlashCardSchemaAccepts(j.items[i])
    THEN Returned([i \in 1..Len(j.items) |-> FlashCardSchemaParse(j.items[i])])
    ELSE Thrown("ZodError")

generateFlashCardsFromPDF(r) ==
    IF r.kind = "error" THEN Thrown("GenerateContentError")
    ELSE IF r.kind = "empty" THEN Thrown("LLM response was empty")
    ELSE IF r.kind = "garbage" THEN Thrown("SyntaxError")
    ELSE FlashCardsArrayParse(r.json)

----------------------------------------------------------------------------
(* The CSV rendering *)

RECURSIVE escapeFirstOnly(_)
escapeFirstOnly(s) ==
    IF s = <<>> THEN <<>>
    ELSE IF Head(s) = Quote THEN <<Quote, Quote>> \o Tail(s)
    ELSE <<Head(s)>> \o escapeFirstOnly(Tail(s))

escapeNothing(s) == s

RECURSIVE escape(_)
escape(s) ==
    IF s = <<>> THEN <<>>
    ELSE (IF Head(s) = Quote THEN <<Quote, Quote>> ELSE <<Head(s)>>)
         \o escape(Tail(s))

cardLine(c) ==
    <<Quote>> \o escape(c.question) \o <<Quote, Comma, Quote>>
    \o escape(c.answer) \o <<Quote>>

RECURSIVE join(_, _)
join(lines, sep) ==
    IF lines = <<>> THEN <<>>
    ELSE IF Len(lines) = 1 THEN lines[1]
    ELSE lines[1] \o sep \o join(Tail(lines), sep)

toCsv(cards) ==
    join([i \in 1..Len(cards) |-> cardLine(cards[i])], <<Newline>>)

----------------------------------------------------------------------------
(* Responses *)

NoResponseYet ==
    [status |-> 0, type |-> "", error |-> "", csv |-> <<>>, thrown |-> FALSE]
MissingFileResponse ==
    [status |-> StatusBadRequest, type |-> "application/json",
     error |-> "Missing PDF in form-data under field 'file'.", csv |-> <<>>,
     thrown |-> FALSE]
CsvResponse(text) ==
    [status |-> StatusOk, type |-> "text/csv", error |-> "", csv |-> text,
     thrown |-> FALSE]
(* POST catches nothing: an exception leaves the handler, which returns no *)
(* Response of its own, and the request ends in the server's error         *)
(* response.                                                               *)
UncaughtResponse(e) ==
    [status |-> 0, type |-> "", error |-> e, csv |-> <<>>, thrown |-> TRUE]

----------------------------------------------------------------------------
(* The request *)

CardA == Card(<<Other>>, <<Quote>>)
CardB == Card(<<Comma>>, <<>>)
CardC == Card(<<Newline>>, <<Other, Other>>)

(* The answers the service gives in the request specification. *)
ServiceAnswers ==
    {ServiceError, EmptyText, GarbageText,
     JsonText(Json(FALSE, FALSE, <<>>, TRUE)),
     JsonText(Json(TRUE, TRUE, <<Item(FString(<<Other>>), FNumber, FALSE)>>, FALSE)),
     JsonText(Json(TRUE, TRUE, <<>>, FALSE)),
     JsonText(Json(TRUE, TRUE,
                   <<Item(FString(CardA.question), FString(CardA.answer), FALSE)>>,
                   FALSE)),
     JsonText(Json(TRUE, TRUE,
                   <<Item(FString(CardB.question), FString(CardB.answer), TRUE),
                     Item(FString(CardC.question), FString(CardC.answer), FALSE)>>,
                   TRUE))}

FormFields ==
    {NoFile, TextField, BadFile} \cup {PdfFile(p) : p \in 0..(Threshold + PagesOver)}

Init ==
    /\ pc = "start"
    /\ file \in FormFields
    /\ totalPages = 0
    /\ pdfBuffers = <<>>
    /\ idx = 1
    /\ resp = NoResponse
    /\ allCards = <<>>
    /\ csv = <<>>
    /\ response = NoResponseYet
    /\ calls = <<>>
    /\ inFlight = 0
    /\ batches = <<>>
    /\ cancelled = "none"
    /\ cancelledAt = 0
    /\ failedAt = 0

(* route.ts 24-34: the form field must be a File *)
ParseForm ==
    /\ pc = "start"
    /\ IF file.kind = "file"
       THEN /\ pc' = "gotFile"
            /\ UNCHANGED response
       ELSE /\ pc' = "done"
            /\ response' = MissingFileResponse
    /\ UNCHANGED <<file, totalPages, pdfBuffers, idx, resp, allCards, csv,
                   calls, inFlight, batches, cancelled, cancelledAt, failedAt>>

(* route.ts 39-40: PDFDocument.load throws on bytes it cannot parse *)
LoadPdf ==
    /\ pc = "gotFile"
    /\ IF file.valid
       THEN /\ pc' = "loaded"
            /\ totalPages' = file.pages
            /\ UNCHANGED response
       ELSE /\ pc' = "done"
            /\ response' = UncaughtResponse("PdfParseError")
            /\ UNCHANGED totalPages
    /\ UNCHANGED <<file, pdfBuffers, idx, resp, allCards, csv,
                   calls, inFlight, batches, cancelled, cancelledAt, failedAt>>

(* route.ts 43-56, 62 *)
Split ==
    /\ pc = "loaded"
    /\ pdfBuffers' = choosePdfBuffers(totalPages)
    /\ allCards' = <<>>
    /\ idx' = 1
    /\ pc' = "generate"
    /\ UNCHANGED <<file, totalPages, resp, csv, response,
                   calls, inFlight, batches, cancelled, cancelledAt, failedAt>>

CallGeneratorForAll ==
    /\ pc = "generate"
    /\ idx <= Len(pdfBuffers)
    /\ calls' = calls \o [i \in 1..(Len(pdfBuffers) - idx + 1) |-> idx + i - 1]
    /\ inFlight' = inFlight + (Len(pdfBuffers) - idx + 1)
    /\ pc' = "awaiting"
    /\ UNCHANGED <<file, totalPages, pdfBuffers, idx, resp, allCards, csv,
                   response, batches, cancelled, cancelledAt, failedAt>>

(* route.ts 63-64, actions.ts 42-106: the call for the next buffer starts *)
CallGenerator ==
    /\ pc = "generate"
    /\ idx <= Len(pdfBuffers)
    /\ calls' = Append(calls, idx)
    /\ inFlight' = inFlight + 1
    /\ pc' = "awaiting"
    /\ UNCHANGED <<file, totalPages, pdfBuffers, idx, resp, allCards, csv,
                   response, batches, cancelled, cancelledAt, failedAt>>

(* the service answers the call in flight *)
ServiceAnswer ==
    /\ pc = "awaiting"
    /\ \E r \in ServiceAnswers : resp' = r
    /\ pc' = "answered"
    /\ UNCHANGED <<file, totalPages, pdfBuffers, idx, allCards, csv, response,
                   calls, inFlight, batches, cancelled, cancelledAt, failedAt>>

appendCardsInFront(all, cards) == cards \o all

(* route.ts 65: allCards.push(...cards) *)
appendCards(all, cards) == all \o cards

GeneratorReturnsSkippingFailures ==
    /\ pc = "answered"
    /\ inFlight' = inFlight - 1
    /\ LET r == generateFlashCardsFromPDF(resp) IN
       /\ allCards' = appendCards(allCards, r.cards)
       /\ batches' = IF r.ok THEN Append(batches, r.cards) ELSE batches
       /\ failedAt' = IF r.ok THEN failedAt ELSE idx
    /\ idx' = idx + 1
    /\ pc' = "generate"
    /\ UNCHANGED <<file, totalPages, pdfBuffers, resp, csv, response, calls,
                   cancelled, cancelledAt>>

(* actions.ts 99-114 and route.ts 64-65: the call returns its records, or *)
(* throws and the exception leaves POST                                    *)
GeneratorReturns ==
    /\ pc = "answered"
    /\ inFlight' = inFlight - 1
    /\ LET r == generateFlashCardsFromPDF(resp) IN
       IF r.ok
       THEN /\ allCards' = appendCards(allCards, r.cards)
            /\ batches' = Append(batches, r.cards)
            /\ idx' = idx + 1
            /\ pc' = "generate"
            /\ UNCHANGED <<response, failedAt>>
       ELSE /\ pc' = "done"
            /\ response' = UncaughtResponse(r.error)
            /\ failedAt' = idx
            /\ UNCHANGED <<allCards, batches, idx>>
    /\ UNCHANGED <<file, totalPages, pdfBuffers, resp, csv, calls,
                   cancelled, cancelledAt>>

(* route.ts 72-85 *)
Respond ==
    /\ pc = "generate"
    /\ idx > Len(pdfBuffers)
    /\ csv' = toCsv(allCards)
    /\ response' = CsvResponse(csv')
    /\ pc' = "done"
    /\ UNCHANGED <<file, totalPages, pdfBuffers, idx, resp, allCards,
                   calls, inFlight, batches, cancelled, cancelledAt, failedAt>>

(* The caller disconnects, or its timeout elapses, while a generation call *)
(* is in flight. POST (route.ts 20-86) never reads req.signal and sets no  *)
(* timer, so nothing of the handler's state changes.                       *)
CallerGivesUp ==
    /\ pc \in {"awaiting", "answered"}
    /\ cancelled = "none"
    /\ \E why \in {"disconnect", "timeout"} : cancelled' = why
    /\ cancelledAt' = idx
    /\ UNCHANGED <<pc, file, totalPages, pdfBuffers, idx, resp, allCards, csv,
                   response, calls, inFlight, batches, failedAt>>

Next ==
    \/ ParseForm
    \/ LoadPdf
    \/ Split
    \/ CallGenerator
    \/ ServiceAnswer
    \/ GeneratorReturns
    \/ Respond
    \/ CallerGivesUp

Spec == Init /\ [][Next]_vars

----------------------------------------------------------------------------
(* The split alone: every page count up to MaxPages, from the loaded       *)
(* document to the buffers.                                                *)

InitSplit ==
    /\ pc = "loaded"
    /\ \E p \in 0..MaxPages : file = PdfFile(p) /\ totalPages = p
    /\ pdfBuffers = <<>>
    /\ idx = 1
    /\ resp = NoResponse
    /\ allCards = <<>>
    /\ csv = <<>>
    /\ response = NoResponseYet
    /\ calls = <<>>
    /\ inFlight = 0
    /\ batches = <<>>
    /\ cancelled = "none"
    /\ cancelledAt = 0
    /\ failedAt = 0

SpecSplit == InitSplit /\ [][Split]_vars

PageCountOf(b) == b.last - b.first

RECURSIVE SumPages(_)
SumPages(bs) == IF bs = <<>> THEN 0 ELSE PageCountOf(Head(bs)) + SumPages(Tail(bs))

LastChunkPages(total) ==
    IF total % ChunkSize = 0 THEN ChunkSize ELSE total % ChunkSize

(* C1: a document of more than Threshold pages is split into extracted     *)
(* page ranges that start at page 0, end at pageCount, follow one another  *)
(* without gap or overlap in ascending order, each but the last ChunkSize  *)
(* pages long, the last pageCount mod ChunkSize pages long (ChunkSize when *)
(* that is 0), and whose page counts add up to pageCount.                  *)
C1_ChunksPartitionPages ==
    (pc = "generate" /\ totalPages > Threshold) =>
        LET n == Len(pdfBuffers) IN
        /\ n >= 1
        /\ \A i \in 1..n :
              /\ ~pdfBuffers[i].orig
              /\ pdfBuffers[i].first < pdfBuffers[i].last
        /\ pdfBuffers[1].first = 0
        /\ pdfBuffers[n].last = totalPages
        /\ \A i \in 1..(n - 1) :
              /\ pdfBuffers[i].last = pdfBuffers[i + 1].first
              /\ PageCountOf(pdfBuffers[i]) = ChunkSize
        /\ \A i, j \in 1..n : i < j => pdfBuffers[i].last <= pdfBuffers[j].first
        /\ PageCountOf(pdfBuffers[n]) = LastChunkPages(totalPages)
        /\ SumPages(pdfBuffers) = totalPages

C1_Witness ==
    /\ pc = "generate"
    /\ totalPages = 650
    /\ Len(pdfBuffers) = 7
    /\ PageCountOf(pdfBuffers[6]) = 100
    /\ PageCountOf(pdfBuffers[7]) = 50

(* C2: a document of at most Threshold pages (0 and Threshold included) is *)
(* handed on as one buffer, the uploaded bytes themselves, and the request *)
(* makes exactly one generation call.                                      *)
C2_SmallDocumentUnsplit ==
    (file.valid /\ file.pages <= Threshold /\ pc \notin {"start", "gotFile", "loaded"}) =>
        /\ pdfBuffers = <<Original(file.pages)>>
        /\ pc \in {"awaiting", "answered", "done"} => calls = <<1>>
        /\ pc = "generate" => (calls = <<>> \/ calls = <<1>>)

C2_Witness ==
    /\ pc = "done"
    /\ file = PdfFile(Threshold)
    /\ pdfBuffers = <<Original(Threshold)>>
    /\ calls = <<1>>
    /\ response.status = StatusOk

----------------------------------------------------------------------------
(* The request: failure, order and sequencing of the generation calls *)

IsErrorResponse(r) ==
    /\ r.thrown \/ r.status >= StatusBadRequest
    /\ r.type # "text/csv"
    /\ r.csv = <<>>

(* C3: once the generation call for buffer k has failed, the request has   *)
(* ended in an error response that carries no CSV text (the records of     *)
(* buffers 1..k-1 are not returned), the calls made are those for buffers  *)
(* 1..k, and no further call can start.                                    *)
C3_FailureAbortsRequest ==
    failedAt # 0 =>
        /\ pc = "done"
        /\ IsErrorResponse(response)
        /\ csv = <<>>
        /\ calls = [i \in 1..failedAt |-> i]
        /\ inFlight = 0
        /\ ~ENABLED CallGenerator
        /\ ~ENABLED Respond

C3_Witness ==
    /\ failedAt = 3
    /\ Len(pdfBuffers) > 3
    /\ Len(allCards) >= 2
    /\ resp.kind = "json"
    /\ response.thrown

RECURSIVE Flatten(_)
Flatten(bs) == IF bs = <<>> THEN <<>> ELSE Head(bs) \o Flatten(Tail(bs))

(* C4: the aggregated list is the concatenation, in call order, of the     *)
(* batches the generator returned, each batch in the order it was          *)
(* returned; on a successful request there is one batch per buffer, and    *)
(* the calls were made in buffer order.                                    *)
C4_AggregateIsConcatenation ==
    /\ allCards = Flatten(batches)
    /\ (pc = "done" /\ response.status = StatusOk) =>
          /\ Len(batches) = Len(pdfBuffers)
          /\ calls = [i \in 1..Len(pdfBuffers) |-> i]

C4_Witness ==
    /\ pc = "done"
    /\ response.status = StatusOk
    /\ Len(batches) > 2
    /\ batches[1] = <<CardB, CardC>>
    /\ batches[2] = <<>>
    /\ batches[3] = <<CardA>>
    /\ SubSeq(allCards, 1, 3) = <<CardB, CardC, CardA>>

ReturnedCalls == Len(batches) + (IF failedAt # 0 THEN 1 ELSE 0)

(* C5: the generation calls of a request are made for buffers 1, 2, 3, ... *)
(* in that order, one per buffer (one for every buffer when the request    *)
(* succeeds), and a call starts only when every earlier call has returned: *)
(* at most one call is in flight.                                          *)
C5_CallsSequential ==
    /\ inFlight \in {0, 1}
    /\ calls = [i \in 1..Len(calls) |-> i]
    /\ Len(calls) <= Len(pdfBuffers)
    /\ Len(calls) = ReturnedCalls + inFlight
    /\ inFlight = 1 <=> pc \in {"awaiting", "answered"}
    /\ (pc = "done" /\ response.status = StatusOk) => Len(calls) = Len(pdfBuffers)

C5_Witness ==
    /\ pc = "awaiting"
    /\ inFlight = 1
    /\ calls = <<1, 2, 3>>
    /\ Len(batches) = 2

(* C6: a request whose 'file' field is absent, or holds something that is  *)
(* no parseable document, ends in status 400 with a JSON error body, and a *)
(* failure of the generator never ends in status 400.                      *)
C6_BadInputIsClientError ==
    /\ (pc = "done" /\ ~(file.kind = "file" /\ file.valid)) =>
          /\ response.status = StatusBadRequest
          /\ response.type = "application/json"
          /\ response.error # ""
    /\ failedAt # 0 => response.status # StatusBadRequest

(* C9: once the caller has given up during the generation call for buffer  *)
(* k, no call is made for a buffer after k, the call in flight adds no     *)
(* record, and no CSV is produced.                                         *)
C9_CancelStopsRequest ==
    cancelledAt # 0 =>
        /\ \A i \in 1..Len(calls) : calls[i] <= cancelledAt
        /\ Len(batches) < cancelledAt
        /\ response.type # "text/csv"
        /\ csv = <<>>

----------------------------------------------------------------------------
(* The adapter alone: every answer of the service with up to MaxItems      *)
(* array elements, from the answered call to its return.                   *)

FieldValues == {FAbsent, FNumber, FString(<<Other>>)}

Items ==
    {NonObjectItem} \cup {Item(q, a, x) : q \in FieldValues, a \in FieldValues, x \in BOOLEAN}

RECURSIVE ItemListsOfLen(_)
ItemListsOfLen(n) ==
    IF n = 0 THEN {<<>>}
    ELSE {<<it>> \o rest : it \in Items, rest \in ItemListsOfLen(n - 1)}

ItemListsWithin(max) == UNION {ItemListsOfLen(n) : n \in 0..max}

AnswersWithin(max) ==
    {ServiceError, EmptyText, GarbageText, JsonText(NonObjectJson)}
    \cup {JsonText(Json(FALSE, FALSE, <<>>, x)) : x \in BOOLEAN}
    \cup {JsonText(Json(TRUE, FALSE, <<>>, x)) : x \in BOOLEAN}
    \cup {JsonText(Json(TRUE, TRUE, items, x)) : items \in ItemListsWithin(max), x \in BOOLEAN}

InitAdapter ==
    /\ pc = "answered"
    /\ file = PdfFile(1)
    /\ totalPages = 1
    /\ pdfBuffers = <<Original(1)>>
    /\ idx = 1
    /\ resp \in AnswersWithin(MaxItems)
    /\ allCards = <<>>
    /\ csv = <<>>
    /\ response = NoResponseYet
    /\ calls = <<1>>
    /\ inFlight = 1
    /\ batches = <<>>
    /\ cancelled = "none"
    /\ cancelledAt = 0
    /\ failedAt = 0

SpecAdapter == InitAdapter /\ [][GeneratorReturns]_vars

Accepted == pc = "generate" /\ failedAt = 0
Rejected == pc = "done" /\ failedAt # 0

HasRecordShape(j) ==
    /\ j.isObject
    /\ j.hasKey
    /\ j.isArray
    /\ \A i \in 1..Len(j.items) :
          /\ j.items[i].isObject
          /\ j.items[i].question.t = "string"
          /\ j.items[i].answer.t = "string"

HasNoExtraKey(j) ==
    /\ ~j.extra
    /\ \A i \in 1..Len(j.items) : ~j.items[i].extra

NothingAggregated ==
    /\ Rejected
    /\ allCards = <<>>
    /\ batches = <<>>
    /\ IsErrorResponse(response)

(* C8 as stated: a response is accepted only if it is an object whose      *)
(* single key holds an array of objects with exactly the two string keys   *)
(* question and answer; any other shape, an extra key on a record or on    *)
(* the top-level object included, raises a validation error and adds no    *)
(* record.                                                                 *)
C8_StrictShapeOnly ==
    pc # "answered" =>
        /\ Accepted <=> (resp.kind = "json" /\ HasRecordShape(resp.json)
                                            /\ HasNoExtraKey(resp.json))
        /\ ~Accepted => NothingAggregated

(* C8 amended: a response is accepted exactly if it is an object whose key *)
(* flashcard holds an array of objects whose question and answer are       *)
(* strings; further keys, on a record or on the top-level object, are      *)
(* dropped and the records are taken without them; any other shape raises  *)
(* a validation error and no record of the response is aggregated.         *)
C8_ShapeCheckedExtraKeysDropped ==
    pc # "answered" =>
        /\ Accepted <=> (resp.kind = "json" /\ HasRecordShape(resp.json))
        /\ Accepted =>
              /\ allCards = [i \in 1..Len(resp.json.items) |->
                                Card(resp.json.items[i].question.s,
                                     resp.json.items[i].answer.s)]
              /\ batches = <<allCards>>
        /\ ~Accepted =>
              /\ NothingAggregated
              /\ resp.kind = "json" => response.error = "ZodError"

C8_Witness ==
    /\ Accepted
    /\ resp.json.extra
    /\ Len(resp.json.items) = 2
    /\ resp.json.items[2].extra
    /\ resp.json.items[1].question = FString(<<Other>>)
    /\ allCards = <<Card(<<Other>>, <<Other>>), Card(<<Other>>, <<Other>>)>>

----------------------------------------------------------------------------
(* The serializer alone: every record list of up to MaxCards records with  *)
(* up to MaxChars characters in all, from the end of the loop to the       *)
(* response.                                                               *)

(* The sequences of n texts of at most budget characters in all. *)
RECURSIVE FieldLists(_, _)
FieldLists(n, budget) ==
    IF n = 0 THEN {<<>>}
    ELSE UNION {{<<t>> \o rest : rest \in FieldLists(n - 1, budget - Len(t))} :
                   t \in TextsUpTo(budget)}

CardsOf(fs) == [i \in 1..(Len(fs) \div 2) |-> Card(fs[2 * i - 1], fs[2 * i])]

CardListsWithin(cards, chars) ==
    UNION {{CardsOf(fs) : fs \in FieldLists(2 * n, chars)} : n \in 0..cards}

ItemsOf(cards) ==
    [i \in 1..Len(cards) |->
        Item(FString(cards[i].question), FString(cards[i].answer), FALSE)]

InitCsv ==
    /\ pc = "generate"
    /\ file = PdfFile(1)
    /\ totalPages = 1
    /\ pdfBuffers = <<Original(1)>>
    /\ idx = 2
    /\ allCards \in CardListsWithin(MaxCards, MaxChars)
    /\ resp = JsonText(Json(TRUE, TRUE, ItemsOf(allCards), FALSE))
    /\ csv = <<>>
    /\ response = NoResponseYet
    /\ calls = <<1>>
    /\ inFlight = 0
    /\ batches = <<allCards>>
    /\ cancelled = "none"
    /\ cancelledAt = 0
    /\ failedAt = 0

SpecCsv == InitCsv /\ [][Respond]_vars

(* The text with every double quote written twice, character by character. *)
Doubled(s) ==
    LET D[i \in 0..Len(s)] ==
            IF i = 0 THEN <<>>
            ELSE D[i - 1] \o (IF s[i] = Quote THEN <<Quote, Quote>> ELSE <<s[i]>>)
    IN D[Len(s)]

Rendered(c) ==
    <<Quote>> \o Doubled(c.question) \o <<Quote>> \o <<Comma>>
    \o <<Quote>> \o Doubled(c.answer) \o <<Quote>>

RenderedList(cards) ==
    LET R[i \in 0..Len(cards)] ==
            IF i = 0 THEN <<>>
            ELSE IF i = 1 THEN Rendered(cards[1])
            ELSE R[i - 1] \o <<Newline>> \o Rendered(cards[i])
    IN R[Len(cards)]

CountOf(ch, s) == Cardinality({i \in 1..Len(s) : s[i] = ch})

(* C7: serialization always ends in the CSV response, whose text is the    *)
(* records in order, each rendered "q","a" with the double quotes of q and *)
(* a doubled and every other character kept, joined by one line feed,      *)
(* with no header and no trailing line feed; the empty list gives the      *)
(* empty text.                                                             *)
C7_CsvRendering ==
    /\ pc = "generate" => ENABLED Respond
    /\ pc = "done" =>
          /\ response = CsvResponse(csv)
          /\ csv = RenderedList(allCards)
          /\ allCards = <<>> => csv = <<>>
          /\ allCards # <<>> =>
                /\ SubSeq(csv, 1, Len(Rendered(allCards[1]))) = Rendered(allCards[1])
                /\ csv[Len(csv)] = Quote
          /\ \A ch \in {Comma, Newline, Other} :
                CountOf(ch, csv) =
                    CountOf(ch, Flatten([i \in 1..Len(allCards) |->
                        allCards[i].question \o allCards[i].answer]))
                    + (IF ch = Comma THEN Len(allCards) ELSE 0)
                    + (IF ch = Newline /\ allCards # <<>> THEN Len(allCards) - 1 ELSE 0)

C7_Witness ==
    /\ pc = "done"
    /\ allCards = <<Card(<<Quote>>, <<>>), Card(<<>>, <<Comma>>)>>
    /\ csv = <<Quote, Quote, Quote, Quote, Comma, Quote, Quote, Newline,
               Quote, Quote, Comma, Quote, Comma, Quote>>

(* Reading a text as always-quoted, comma-separated fields with doubled    *)
(* quotes, two fields to a line.                                           *)
NoParse == [ok |-> FALSE, val |-> <<>>, next |-> 0]

RECURSIVE ScanField(_, _, _)
ScanField(t, j, acc) ==
    IF j > Len(t) THEN NoParse
    ELSE IF t[j] # Quote THEN ScanField(t, j + 1, Append(acc, t[j]))
    ELSE IF j + 1 <= Len(t) /\ t[j + 1] = Quote
         THEN ScanField(t, j + 2, Append(acc, Quote))
    ELSE [ok |-> TRUE, val |-> acc, next |-> j + 1]

ReadField(t, i) ==
    IF i <= Len(t) /\ t[i] = Quote THEN ScanField(t, i + 1, <<>>) ELSE NoParse

RECURSIVE ReadRecords(_, _, _)
ReadRecords(t, i, acc) ==
    LET q == ReadField(t, i) IN
    IF ~q.ok \/ q.next > Len(t) \/ t[Min(q.next, Len(t))] # Comma THEN NoParse
    ELSE LET a == ReadField(t, q.next + 1)
             got == Append(acc, Card(q.val, a.val)) IN
         IF ~a.ok THEN NoParse
         ELSE IF a.next > Len(t) THEN [ok |-> TRUE, val |-> got, next |-> a.next]
         ELSE IF t[a.next] = Newline THEN ReadRecords(t, a.next + 1, got)
         ELSE NoParse

ReadCsv(t) ==
    IF t = <<>> THEN [ok |-> TRUE, val |-> <<>>, next |-> 1]
    ELSE ReadRecords(t, 1, <<>>)

(* The record lists the serialized text is compared with. *)
OtherLists == CardListsWithin(MaxCards, 1)

(* C10: reading the serialized text back gives exactly the records that    *)
(* were serialized, field for field and in order, so no other record list  *)
(* has the same text; the text is empty only for the empty list, and it    *)
(* differs from the text of every other list it is compared with.          *)
C10_CsvReadsBack ==
    pc = "done" =>
        /\ ReadCsv(csv).ok
        /\ ReadCsv(csv).val = allCards
        /\ csv = <<>> <=> allCards = <<>>
        /\ \A l \in OtherLists : l # allCards => toCsv(l) # csv

C10_Witness ==
    /\ pc = "done"
    /\ allCards = <<Card(<<Quote, Comma>>, <<>>), Card(<<>>, <<>>)>>
    /\ ReadCsv(csv).val = allCards
    /\ Len(csv) = 14

====
